---- MODULE Spec2Model ----
(***************************************************************************)
(* Brainot: reconciliation between the local document store (Firestore)     *)
(* and the remote calendar.  The model covers the Dashboard and EditorPanel *)
(* handlers that write the local store and call googleCalendarService, the  *)
(* two GoogleCalendarService implementations the repository exports under   *)
(* that name (the token-managing one and the session-token one), the two    *)
(* snapshot listeners of Dashboard and the token storage.                   *)
(*                                                                         *)
(* Every handler is an async function: it is modelled as a process whose    *)
(* steps are the code between two awaits.                                   *)
(***************************************************************************)
EXTENDS Integers, Sequences, FiniteSets, TLC

\* number of documents the local store ever holds
MaxDocs == 2
\* number of handler invocations (submit, create-from-date, delete, sync)
MaxOps == 3

NoId == 0
DocIds == 1..MaxDocs
Variants == {"ensure", "session"}
\* the async handlers: EditorPanel's two save handlers (handleSubmit and
\* handleCreateEventFromDate, one of them in flight at a time), and
\* Dashboard's handleEventDelete and handleSyncCalendar
Procs == {"editor", "delete", "sync"}

VARIABLES
  variant,       \* which GoogleCalendarService is bound to googleCalendarService
  currentUser,   \* auth.currentUser is non-null
  lsToken,       \* localStorage holds googleAccessToken
  ssToken,       \* sessionStorage holds google_access_token
  refreshToken,  \* localStorage holds googleRefreshToken
  docs,          \* the local store: documents of the events and notes collections
  events,        \* Dashboard state `events`
  eventsSnap,    \* history: the list the latest events snapshot mapped to
  notesSnap,     \* history: the list the latest notes snapshot mapped to
  selected,      \* Dashboard state selectedEvent / selectedDate (the editor's props)
  h,             \* the async handlers: position and locals
  syncQueue,     \* handleSyncCalendar: the items of eventsToSync not yet synced
  remote,        \* identifiers of the events the remote calendar holds
  sent,          \* history: the calendar requests sent so far
  lost,          \* history: created identifiers whose storing write was rejected
  last,          \* history: how the most recent service call ended
  ops,           \* number of handler invocations so far
  calc           \* a computation of its own: an editor form with the item and the
                 \* request body built from it, or a run of syncEvents

vars == <<calc, variant, currentUser, lsToken, ssToken, refreshToken, docs, events,
          eventsSnap, notesSnap, selected, h, syncQueue, remote, sent, lost,
          last, ops>>

\* the variables of the handlers and the service calls
appVars == <<variant, currentUser, lsToken, ssToken, refreshToken, docs, events,
             eventsSnap, notesSnap, selected, h, syncQueue, remote, sent, lost,
             last, ops>>


----------------------------------------------------------------------------
(* The local store *)

AbsentDoc == [st |-> "absent", isNote |-> FALSE, gid |-> NoId, ver |-> 0]

Live(id) == docs[id].st = "live"

\* the identifier addDoc assigns: documents are never re-created
NewDocId == Cardinality({i \in DocIds : docs[i].st # "absent"}) + 1

\* what a snapshot of a collection maps to (Dashboard.tsx:30-50 and 60-81)
EventsList == {[id |-> i, isNote |-> FALSE, gid |-> docs[i].gid] :
                 i \in {j \in DocIds : Live(j) /\ ~docs[j].isNote}}

NotesList == {[id |-> i, isNote |-> TRUE, gid |-> NoId] :
                 i \in {j \in DocIds : Live(j) /\ docs[j].isNote}}

\* the events callback without the filter on the previous state
MergeEventsKeepAll(prev, eventsList) == prev \cup eventsList

\* setEvents of the events callback: the notes of the previous state and the
\* new events list
MergeEvents(prev, eventsList) == {e \in prev : e.isNote} \cup eventsList

\* setEvents of the notes callback: the events of the previous state and the
\* new notes list
MergeNotes(prev, notesList) == {e \in prev : ~e.isNote} \cup notesList

----------------------------------------------------------------------------
(* The remote calendar and the request history *)

Created == {r \in sent : r.op = "POST" /\ r.ok}

\* the identifier the next successful create returns
NewRid == Cardinality(Created) + 1

CreatedFor(id) == {r.rid : r \in {c \in Created : c.id = id}}

----------------------------------------------------------------------------
(* Token handling of the token-managing service *)

TokOutcome(ret, ls, rt, probe, refresh, signin) ==
  [ret |-> ret, ls |-> ls, rt |-> rt, probe |-> probe, refresh |-> refresh, signin |-> signin]

\* requestNewTokens without the check of auth.currentUser
RequestNewTokensNoUserCheck(ls, rt, user, probe, refresh) ==
  {TokOutcome(TRUE, TRUE, rt, probe, refresh, 1),
   TokOutcome(FALSE, ls, rt, probe, refresh, 1)}

\* requestNewTokens: no user returns false without a call; otherwise an
\* interactive sign-in that either yields an access token or does not
RequestNewTokens(ls, rt, user, probe, refresh) ==
  IF ~user
    THEN {TokOutcome(FALSE, ls, rt, probe, refresh, 0)}
    ELSE {TokOutcome(TRUE, TRUE, rt, probe, refresh, 1),
          TokOutcome(FALSE, ls, rt, probe, refresh, 1)}

\* refreshAccessToken sending its request a second time after a failure
RefreshAccessTokenRetry(ls, rt, user, probe) ==
  {TokOutcome(TRUE, TRUE, rt, probe, 1, 0), TokOutcome(TRUE, TRUE, rt, probe, 2, 0)}
    \cup RequestNewTokens(FALSE, FALSE, user, probe, 2)

\* refreshAccessToken: one refresh request; on failure both tokens are
\* removed and new tokens are requested
RefreshAccessToken(ls, rt, user, probe) ==
  {TokOutcome(TRUE, TRUE, rt, probe, 1, 0)}
    \cup RequestNewTokens(FALSE, FALSE, user, probe, 1)

\* ensureValidToken: the set of outcomes the network can produce
EnsureValidToken(ls, rt, user) ==
  IF ~ls /\ ~rt
    THEN RequestNewTokens(ls, rt, user, 0, 0)
    ELSE LET Fallback(p) == IF rt THEN RefreshAccessToken(ls, rt, user, p)
                                  ELSE RequestNewTokens(ls, rt, user, p, 0)
         IN IF ls
              THEN {TokOutcome(TRUE, ls, rt, 1, 0, 0)}     \* testResponse.ok
                     \cup Fallback(1)                      \* probe answered, not ok
                     \cup {TokOutcome(FALSE, ls, rt, 1, 0, 0)}  \* fetch threw
              ELSE Fallback(0)

\* getAccessToken: is there a token to attach
HasAccessToken(v, ls, ss, user) ==
  IF v = "ensure" THEN ls \/ ss ELSE user /\ ss

\* makeRequest: "notoken" sends nothing; "unauthorized" is HTTP 401 and
\* removes the stored token; "error" is any other failure
ReqOutcome(res, ls, ss, n) == [res |-> res, ls |-> ls, ss |-> ss, sent |-> n]

MakeRequest(v, ls, ss, user) ==
  IF ~HasAccessToken(v, ls, ss, user)
    THEN {ReqOutcome("notoken", ls, ss, 0)}
    ELSE {ReqOutcome("ok", ls, ss, 1),
          ReqOutcome("unauthorized", IF v = "ensure" THEN FALSE ELSE ls, FALSE, 1),
          ReqOutcome("error", ls, ss, 1)}

----------------------------------------------------------------------------
(* The service operations *)

\* syncEvent without the test of googleEventId: always the create branch
SyncEventOpAlwaysCreate(gid) == "POST"

\* syncEvent without the test of googleEventId: always the update branch
SyncEventOpAlwaysUpdate(gid) == "PATCH"

\* syncEvent: which request it issues for an item
SyncEventOp(gid) == IF gid = NoId THEN "POST" ELSE "PATCH"

\* the request a service operation issues
RequestOp(svc, gid) ==
  CASE svc = "syncEvent" -> SyncEventOp(gid)
    [] svc = "updateEvent" -> "PATCH"
    [] OTHER -> "DELETE"

\* syncEvent, updateEvent and deleteEvent all start with ensureValidToken in
\* the token-managing service
FirstPc == IF variant = "ensure" THEN "ensure" ELSE "request"

\* what the operation hands to its caller when ensureValidToken is false:
\* at the start of the operation it throws; inside syncEvent's try block
\* (updateEvent called by syncEvent) the throw is caught and null returned
NotConnectedRet(pc) == IF pc = "ensure" THEN "throw" ELSE "null"

\* syncEvent without its try/catch: every failed request is rethrown
RequestFailedRetRethrow(svc) == "throw"

\* what the operation hands to its caller when its request failed
RequestFailedRet(svc) == IF svc = "syncEvent" THEN "null" ELSE "throw"

\* why a request did not succeed: there was no token to attach, or the
\* request was sent and failed
FailureCause(res) ==
  CASE res = "ok" -> "none"
    [] res = "notoken" -> "noToken"
    [] OTHER -> "request"

\* what the operation hands to its caller when its request succeeded
RequestOkRet(svc) == IF svc = "syncEvent" THEN "id" ELSE "ok"

----------------------------------------------------------------------------
(* Handler records *)

IdleH == [pc |-> "idle", kind |-> "none", id |-> NoId, ver |-> 0, gid |-> NoId,
          svc |-> "none", rid |-> NoId, net |-> FALSE, req |-> FALSE,
          cred |-> "none"]

\* no service call has ended yet
NoCall == [p |-> "none", kind |-> "none", id |-> NoId, ver |-> 0, svc |-> "none",
           ret |-> "none", cause |-> "none", net |-> FALSE, req |-> FALSE,
           cred |-> "none"]

\* how the call of handler p, whose locals are r, ended
Ended(p, r, ret, cause) ==
  [p |-> p, kind |-> r.kind, id |-> r.id, ver |-> r.ver, svc |-> r.svc,
   ret |-> ret, cause |-> cause, net |-> r.net, req |-> r.req, cred |-> r.cred]

\* no form is being processed
NoCalc == [phase |-> "none"]

Closed == [mode |-> "closed", id |-> NoId, isNote |-> FALSE, gid |-> NoId]
NewItem == [mode |-> "new", id |-> NoId, isNote |-> FALSE, gid |-> NoId]

\* a handler invocation that has done its local write on document id,
\* leaving it at version ver
Started(kind, id, ver) ==
  [IdleH EXCEPT !.kind = kind, !.id = id, !.ver = ver]

\* the handler calls a service operation
BeginCall(r, svc, gid) ==
  [r EXCEPT !.pc = FirstPc, !.svc = svc, !.gid = gid, !.rid = NoId,
            !.net = FALSE, !.req = FALSE, !.cred = "none"]

Mounted == currentUser

CanStart(p) == Mounted /\ h[p].pc = "idle" /\ ops < MaxOps

----------------------------------------------------------------------------
(* Guards of the handlers *)

\* handleSubmit without the isNote test around syncEvent
SubmitSyncsAnyItem(isNote) == TRUE

\* EditorPanel.handleSubmit, new item: only events are synced
SubmitSyncs(isNote) == ~isNote

\* EditorPanel.handleSubmit, existing item: only linked events are updated
SubmitUpdates(isNote, gid) == ~isNote /\ gid # NoId

\* Dashboard.handleEventDelete: only linked events are deleted remotely
DeleteRemote(isNote, gid) == ~isNote /\ gid # NoId

\* Dashboard.handleSyncCalendar: the items it syncs
EventsToSync == {e \in events : ~e.isNote}

\* updateEvent refuses an item without googleEventId
UpdateEventHasId(svc, gid) == svc # "updateEvent" \/ gid # NoId

\* the sequences that enumerate a set (the order of the events array is the
\* order of the snapshot's documents, which follows the random document ids)
SeqsOf(S) == {q \in [1..Cardinality(S) -> S] : \A i, j \in 1..Cardinality(S) : q[i] = q[j] => i = j}

----------------------------------------------------------------------------
(* Continuation of a handler after its service call returned or threw *)

Return(p, r, ret) ==
  CASE p = "sync" ->
         /\ UNCHANGED selected
         /\ IF ret = "throw" \/ syncQueue = <<>>
              THEN /\ h' = [h EXCEPT ![p] = IdleH]
                   /\ syncQueue' = <<>>
              ELSE /\ h' = [h EXCEPT ![p] =
                          BeginCall(Started("sync", Head(syncQueue).id, 0),
                                    "syncEvent", Head(syncQueue).gid)]
                   /\ syncQueue' = Tail(syncQueue)
    [] p = "delete" ->
         /\ h' = [h EXCEPT ![p] = IdleH]
         /\ UNCHANGED <<selected, syncQueue>>
    [] OTHER ->
         /\ UNCHANGED syncQueue
         /\ IF r.kind \in {"create", "createFromDate"} /\ ret = "id"
              THEN /\ h' = [h EXCEPT ![p] = [r EXCEPT !.pc = "store"]]
                   /\ UNCHANGED selected
              ELSE /\ h' = [h EXCEPT ![p] = IdleH]
                   /\ selected' = IF r.kind = "createFromDate" THEN selected ELSE Closed

----------------------------------------------------------------------------
(* Initial state *)

Init ==
  /\ variant \in Variants
  /\ currentUser = TRUE
  /\ lsToken \in (IF variant = "ensure" THEN BOOLEAN ELSE {FALSE})
  /\ refreshToken \in (IF variant = "ensure" THEN BOOLEAN ELSE {FALSE})
  /\ ssToken \in BOOLEAN
  /\ docs = [i \in DocIds |-> AbsentDoc]
  /\ events = {}
  /\ eventsSnap = {}
  /\ notesSnap = {}
  /\ selected = Closed
  /\ h = [p \in Procs |-> IdleH]
  /\ syncQueue = <<>>
  /\ remote = {}
  /\ sent = {}
  /\ lost = {}
  /\ last = NoCall
  /\ ops = 0
  /\ calc = NoCalc

----------------------------------------------------------------------------
(* Dashboard: selection, snapshot listeners, logout *)

HandleEventSelect ==
  /\ Mounted
  /\ \E e \in events :
       selected' = [mode |-> "edit", id |-> e.id, isNote |-> e.isNote, gid |-> e.gid]
  /\ selected' # selected
  /\ UNCHANGED <<calc, variant, currentUser, lsToken, ssToken, refreshToken, docs, events, eventsSnap, notesSnap,
                 h, syncQueue, remote, sent, lost, last, ops>>

HandleSlotSelect ==
  /\ Mounted
  /\ selected # NewItem
  /\ selected' = NewItem
  /\ UNCHANGED <<calc, variant, currentUser, lsToken, ssToken, refreshToken, docs, events, eventsSnap, notesSnap,
                 h, syncQueue, remote, sent, lost, last, ops>>

OnSnapshotEvents ==
  /\ Mounted
  /\ events' = MergeEvents(events, EventsList)
  /\ eventsSnap' = EventsList
  /\ <<events', eventsSnap'>> # <<events, eventsSnap>>
  /\ UNCHANGED <<calc, variant, currentUser, lsToken, ssToken, refreshToken, docs,
                 notesSnap, selected, h, syncQueue, remote, sent, lost, last, ops>>

OnSnapshotNotes ==
  /\ Mounted
  /\ events' = MergeNotes(events, NotesList)
  /\ notesSnap' = NotesList
  /\ <<events', notesSnap'>> # <<events, notesSnap>>
  /\ UNCHANGED <<calc, variant, currentUser, lsToken, ssToken, refreshToken, docs,
                 eventsSnap, selected, h, syncQueue, remote, sent, lost, last, ops>>

HandleLogout ==
  /\ currentUser
  /\ currentUser' = FALSE
  /\ UNCHANGED <<calc, variant, lsToken, ssToken, refreshToken, docs, events, eventsSnap, notesSnap,
                 selected, h, syncQueue, remote, sent, lost, last, ops>>

----------------------------------------------------------------------------
(* EditorPanel.handleSubmit *)

\* handleSubmit, new item, calling syncEvent although addDoc failed
SubmitNewSyncsUnwritten(isNote, ok) ==
  /\ NewDocId <= MaxDocs
  /\ UNCHANGED selected
  /\ docs' = IF ok THEN [docs EXCEPT ![NewDocId] =
                          [st |-> "live", isNote |-> isNote, gid |-> NoId, ver |-> 1]]
             ELSE docs
  /\ h' = [h EXCEPT !["editor"] =
             IF SubmitSyncs(isNote)
               THEN BeginCall(Started("create", NewDocId, 1), "syncEvent", NoId)
               ELSE IdleH]

\* handleSubmit, new item: addDoc, then syncEvent for an event
SubmitNew(isNote, ok) ==
  /\ NewDocId <= MaxDocs
  /\ UNCHANGED selected
  /\ IF ok
       THEN /\ docs' = [docs EXCEPT ![NewDocId] =
                          [st |-> "live", isNote |-> isNote, gid |-> NoId, ver |-> 1]]
            /\ h' = [h EXCEPT !["editor"] =
                       IF SubmitSyncs(isNote)
                         THEN BeginCall(Started("create", NewDocId, 1), "syncEvent", NoId)
                         ELSE IdleH]
       ELSE UNCHANGED <<docs, h>>

SubmitEdit(ok) ==
  LET id == selected.id
      isNote == selected.isNote
      gid == selected.gid
  IN IF ok /\ Live(id)
       THEN /\ docs' = [docs EXCEPT ![id].ver = @ + 1,
                                    ![id].gid = IF ~isNote /\ gid # NoId THEN gid ELSE @]
            /\ IF SubmitUpdates(isNote, gid)
                 THEN /\ h' = [h EXCEPT !["editor"] =
                                 BeginCall(Started("edit", id, docs[id].ver + 1),
                                           "updateEvent", gid)]
                      /\ UNCHANGED selected
                 ELSE /\ UNCHANGED h
                      /\ selected' = IF isNote THEN selected ELSE Closed
       ELSE UNCHANGED <<docs, selected, h>>

HandleSubmit ==
  /\ CanStart("editor")
  /\ selected.mode # "closed"
  /\ ops' = ops + 1
  /\ \E ok \in BOOLEAN :
       IF selected.mode = "new"
         THEN \E isNote \in BOOLEAN : SubmitNew(isNote, ok)
         ELSE SubmitEdit(ok)
  /\ UNCHANGED <<calc, variant, currentUser, lsToken, ssToken, refreshToken, events, eventsSnap, notesSnap,
                 syncQueue, remote, sent, lost, last>>

(* EditorPanel.handleCreateEventFromDate *)

HandleCreateEventFromDate ==
  /\ CanStart("editor")
  /\ selected.mode # "closed"
  /\ NewDocId <= MaxDocs
  /\ ops' = ops + 1
  /\ \E ok \in BOOLEAN :
       IF ok
         THEN /\ docs' = [docs EXCEPT ![NewDocId] =
                            [st |-> "live", isNote |-> FALSE, gid |-> NoId, ver |-> 1]]
              /\ h' = [h EXCEPT !["editor"] =
                         BeginCall(Started("createFromDate", NewDocId, 1),
                                   "syncEvent", NoId)]
         ELSE UNCHANGED <<docs, h>>
  /\ UNCHANGED <<calc, variant, currentUser, lsToken, ssToken, refreshToken, events, eventsSnap, notesSnap,
                 selected, syncQueue, remote, sent, lost, last>>

(* Dashboard.handleEventDelete *)

\* handleEventDelete calling the calendar before deleteDoc: the local delete
\* of a linked event waits for the remote one
HandleEventDeleteRemoteFirst(e) ==
  /\ CanStart("delete")
  /\ e \in events
  /\ ops' = ops + 1
  /\ \E ok \in BOOLEAN :
       IF ok
         THEN /\ docs' = IF DeleteRemote(e.isNote, e.gid)
                           THEN docs
                           ELSE [docs EXCEPT ![e.id].st = "deleted"]
              /\ h' = [h EXCEPT !["delete"] =
                         IF DeleteRemote(e.isNote, e.gid)
                           THEN BeginCall(Started("delete", e.id, 0), "deleteEvent", e.gid)
                           ELSE IdleH]
         ELSE UNCHANGED <<docs, h>>
  /\ UNCHANGED <<calc, variant, currentUser, lsToken, ssToken, refreshToken, events, eventsSnap, notesSnap,
                 selected, syncQueue, remote, sent, lost, last>>

HandleEventDelete(e) ==
  /\ CanStart("delete")
  /\ e \in events
  /\ ops' = ops + 1
  /\ \E ok \in BOOLEAN :
       IF ok
         THEN /\ docs' = [docs EXCEPT ![e.id].st = "deleted"]
              /\ h' = [h EXCEPT !["delete"] =
                         IF DeleteRemote(e.isNote, e.gid)
                           THEN BeginCall(Started("delete", e.id, 0), "deleteEvent", e.gid)
                           ELSE IdleH]
         ELSE UNCHANGED <<docs, h>>
  /\ UNCHANGED <<calc, variant, currentUser, lsToken, ssToken, refreshToken, events, eventsSnap, notesSnap,
                 selected, syncQueue, remote, sent, lost, last>>

(* Dashboard.handleSyncCalendar *)

\* the handler up to its first await
SyncCalendarStart ==
  /\ CanStart("sync")
  /\ ops' = ops + 1
  /\ \E q \in SeqsOf(EventsToSync) :
       IF q = <<>>
         THEN UNCHANGED <<h, syncQueue>>
         ELSE /\ h' = [h EXCEPT !["sync"] =
                         BeginCall(Started("sync", q[1].id, 0), "syncEvent", q[1].gid)]
              /\ syncQueue' = Tail(q)
  /\ UNCHANGED <<variant, currentUser, lsToken, ssToken, refreshToken, docs, events, eventsSnap, notesSnap,
                 selected, remote, sent, lost, last>>

\* the handler invoked on its own
HandleSyncCalendar ==
  /\ SyncCalendarStart
  /\ UNCHANGED calc

----------------------------------------------------------------------------
(* Steps of a service call *)

\* the credentials present when a call starts: a stored token of some
\* kind, else only the signed-in Firebase user, else nothing
CredAtEntry ==
  IF lsToken \/ ssToken \/ refreshToken THEN "token"
  ELSE IF currentUser THEN "user" ELSE "absent"

Ensure(p) ==
  /\ h[p].pc \in {"ensure", "ensure2"}
  /\ \E o \in EnsureValidToken(lsToken, refreshToken, currentUser) :
       LET r0 == h[p]
           first == r0.pc = "ensure"
           r1 == [r0 EXCEPT !.net = @ \/ (o.probe + o.refresh + o.signin > 0),
                            !.cred = IF first THEN CredAtEntry ELSE @]
       IN /\ lsToken' = o.ls
          /\ refreshToken' = o.rt
          /\ IF o.ret
               THEN /\ h' = [h EXCEPT ![p] =
                               [r1 EXCEPT !.pc =
                                  IF first /\ r0.svc = "syncEvent" /\ SyncEventOp(r0.gid) = "PATCH"
                                    THEN "ensure2" ELSE "request"]]
                    /\ UNCHANGED <<selected, syncQueue, last>>
               ELSE /\ last' = Ended(p, r1, NotConnectedRet(r0.pc), "notConnected")
                    /\ Return(p, r1, NotConnectedRet(r0.pc))
  /\ UNCHANGED <<calc, variant, currentUser, ssToken, docs, events, eventsSnap, notesSnap, remote, sent, lost, ops>>

Request(p) ==
  /\ h[p].pc = "request"
  /\ LET r0 == h[p]
         op == RequestOp(r0.svc, r0.gid)
         r1 == [r0 EXCEPT !.cred = IF variant = "session" THEN CredAtEntry ELSE @]
     IN IF ~UpdateEventHasId(r0.svc, r0.gid)
          THEN /\ last' = Ended(p, r1, "throw", "request")
               /\ Return(p, r1, "throw")
               /\ UNCHANGED <<lsToken, ssToken, remote, sent>>
          ELSE \E o \in MakeRequest(variant, lsToken, ssToken, currentUser) :
                 /\ (o.res = "ok") => (op = "POST" \/ r0.gid \in remote)
                 /\ lsToken' = o.ls
                 /\ ssToken' = o.ss
                 /\ LET ok == o.res = "ok"
                        rid == IF op = "POST" THEN (IF ok THEN NewRid ELSE NoId) ELSE r0.gid
                        ret == IF ok THEN RequestOkRet(r0.svc) ELSE RequestFailedRet(r0.svc)
                        r2 == [r1 EXCEPT !.net = @ \/ (o.sent = 1),
                                         !.req = (o.sent = 1),
                                         !.rid = IF ok /\ r0.svc = "syncEvent" THEN rid ELSE NoId]
                    IN /\ sent' = IF o.sent = 1
                                    THEN sent \cup {[op |-> op, id |-> r0.id, arg |-> r0.gid,
                                                     rid |-> rid, ok |-> ok, svc |-> r0.svc]}
                                    ELSE sent
                       /\ remote' = IF ok /\ op = "POST" THEN remote \cup {rid}
                                    ELSE IF ok /\ op = "DELETE" THEN remote \ {rid}
                                    ELSE remote
                       /\ last' = Ended(p, r2, ret, FailureCause(o.res))
                       /\ Return(p, r2, ret)
  /\ UNCHANGED <<calc, variant, currentUser, refreshToken, docs, events, eventsSnap, notesSnap, lost, ops>>

\* the caller stores the identifier syncEvent returned: updateDoc(docRef, {googleEventId})
Store(p) ==
  /\ h[p].pc = "store"
  /\ \E ok \in BOOLEAN :
       IF ok /\ Live(h[p].id)
         THEN /\ docs' = [docs EXCEPT ![h[p].id].gid = h[p].rid]
              /\ UNCHANGED lost
         ELSE /\ lost' = lost \cup {h[p].rid}
              /\ UNCHANGED docs
  /\ h' = [h EXCEPT ![p] = IdleH]
  /\ selected' = IF h[p].kind = "create" THEN Closed ELSE selected
  /\ UNCHANGED <<calc, variant, currentUser, lsToken, ssToken, refreshToken, events, eventsSnap, notesSnap,
                 syncQueue, remote, sent, last, ops>>

----------------------------------------------------------------------------
Next ==
  \/ HandleEventSelect
  \/ HandleSlotSelect
  \/ OnSnapshotEvents
  \/ OnSnapshotNotes
  \/ HandleLogout
  \/ HandleSubmit
  \/ HandleCreateEventFromDate
  \/ \E e \in events : HandleEventDelete(e)
  \/ HandleSyncCalendar
  \/ \E p \in Procs : Ensure(p)
  \/ \E p \in Procs : Request(p)
  \/ \E p \in Procs : Store(p)

Spec == Init /\ [][Next]_vars

----------------------------------------------------------------------------
(* The editor forms, the item they build and the request body               *)
(*                                                                          *)
(* Instants and wall-clock times are counted in hours from 00:00 UTC of day *)
(* 0; a calendar day is the quotient by 24.  The time 23:59:59 is           *)
(* represented by its hour, 23: with offsets of whole hours the day of an   *)
(* instant depends on its hour only.                                        *)

\* the days the forms offer
MaxDay == 2
Days == 0..MaxDay
Hours == {0, 9, 10, 23}
Priorities == {"low", "medium", "high"}
Contents == {"", "text"}

\* a time zone: a standard offset and, when dst is a day, daylight saving time
\* (one hour more) from 02:00 standard time of that day on
Offsets == {-11, 0, 5, 14}
Zones == [off : Offsets, dst : {-1} \cup Days]

\* minus Date.getTimezoneOffset(), in hours, at instant t
Offset(z, t) ==
  IF z.dst >= 0 /\ t >= z.dst * 24 + 2 - z.off THEN z.off + 1 ELSE z.off

\* new Date('yyyy-MM-ddTHH:mm'): the instant of a local wall-clock time; a
\* time skipped by the change to daylight saving time is read with the offset
\* before the change
LocalToUtc(z, w) ==
  IF Offset(z, w - z.off) = z.off THEN w - z.off
  ELSE IF Offset(z, w - z.off - 1) = z.off + 1 THEN w - z.off - 1
  ELSE w - z.off

\* date.setDate(date.getDate() + 1): the same wall-clock time one day later
SetDatePlusOne(z, t) == LocalToUtc(z, t + Offset(z, t) + 24)

\* toISOString().split('T')[0]: the UTC calendar day of an instant
IsoDate(t) == t \div 24

\* format(date, 'yyyy-MM-dd'): the local calendar day of an instant
LocalDay(z, t) == (t + Offset(z, t)) \div 24

\* EditorPanel.validateEventTimes
ValidateEventTimes(f) ==
  IF f.allDay THEN TRUE
  ELSE f.endDay * 24 + f.endHour > f.startDay * 24 + f.startHour

\* handleSubmit: startDateTime and endDateTime of an event
SubmitItem(f, z) ==
  [start |-> LocalToUtc(z, f.startDay * 24 + (IF f.allDay THEN 0 ELSE f.startHour)),
   end |-> LocalToUtc(z, f.endDay * 24 + (IF f.allDay THEN 23 ELSE f.endHour)),
   allDay |-> f.allDay, priority |-> f.priority, content |-> f.content]

\* handleCreateEventFromDate: both times on the detected day, never all-day
FromDateItem(f, z) ==
  [start |-> LocalToUtc(z, f.startDay * 24 + f.startHour),
   end |-> LocalToUtc(z, f.startDay * 24 + f.endHour),
   allDay |-> FALSE, priority |-> "medium", content |-> ""]

\* a color table that sends high to the tag of medium
ColorIdHighAsMedium(priority) ==
  CASE priority = "low" -> "2"
    [] OTHER -> "9"

\* convertToGoogleEvent: colorMap[event.resource?.priority || 'medium']
ColorId(priority) ==
  CASE priority = "low" -> "2"
    [] priority = "high" -> "11"
    [] OTHER -> "9"

\* the end date of an all-day event taken from the UTC day of its end
AllDayEndDateUtc(z, t) == IsoDate(t) + 1

\* convertToGoogleEvent: the end date of an all-day event
AllDayEndDate(z, t) ==
  LET endDateObj == SetDatePlusOne(z, t)
  IN IsoDate(endDateObj + Offset(z, endDateObj))

\* convertToGoogleEvent: the start date of an all-day event
AllDayStartDate(z, t) == IsoDate(t + Offset(z, t))

\* the end of the body always in the dateTime form
EndFieldDateTime(ev, z) == [dateTime |-> ev.end, timeZone |-> z]

\* convertToGoogleEvent: googleEvent.end
EndField(ev, z) ==
  IF ev.allDay THEN [date |-> AllDayEndDate(z, ev.end)]
  ELSE [dateTime |-> ev.end, timeZone |-> z]

\* convertToGoogleEvent: googleEvent.start
StartField(ev, z) ==
  IF ev.allDay THEN [date |-> AllDayStartDate(z, ev.start)]
  ELSE [dateTime |-> ev.start, timeZone |-> z]

ConvertToGoogleEvent(ev, z) ==
  [summary |-> "title",
   description |-> ev.content,
   colorId |-> ColorId(ev.priority),
   start |-> StartField(ev, z),
   end |-> EndField(ev, z)]

\* the body of a create (POST) and of an update (PATCH)
RequestBody(op, ev, z) == ConvertToGoogleEvent(ev, z)

\* the forms: the editor form of an event and the create-event-from-date form
EditorForms ==
  [path : {"submit"}, allDay : BOOLEAN, startDay : Days, endDay : Days,
   startHour : Hours, endHour : Hours, priority : Priorities, content : Contents]

FromDateForms ==
  {f \in [path : {"fromDate"}, allDay : {FALSE}, startDay : Days, endDay : Days,
          startHour : Hours, endHour : Hours, priority : {"medium"}, content : {""}] :
     f.endDay = f.startDay}

\* items handed to the service otherwise than from a form just filled in
\* (handleSyncCalendar passes the items of the events state)
StoredItems ==
  [start : {0, 30}, end : {31, 47}, allDay : BOOLEAN,
   priority : Priorities \cup {"absent"}, content : Contents]

NoForm == [path |-> "none"]
NoItem == [allDay |-> FALSE]
NoBody == [op |-> "none"]

InitForm ==
  /\ variant = "ensure"
  /\ currentUser = TRUE
  /\ lsToken = FALSE
  /\ refreshToken = FALSE
  /\ ssToken = FALSE
  /\ docs = [i \in DocIds |-> AbsentDoc]
  /\ events = {}
  /\ eventsSnap = {}
  /\ notesSnap = {}
  /\ selected = Closed
  /\ h = [p \in Procs |-> IdleH]
  /\ syncQueue = <<>>
  /\ remote = {}
  /\ sent = {}
  /\ lost = {}
  /\ last = NoCall
  /\ ops = 0
  /\ \E z \in Zones :
       \/ \E f \in EditorForms \cup FromDateForms :
            calc = [phase |-> "form", form |-> f, zone |-> z, item |-> NoItem,
                    body |-> NoBody]
       \/ \E ev \in StoredItems :
            calc = [phase |-> "written", form |-> NoForm, zone |-> z, item |-> ev,
                    body |-> NoBody]

\* handleSubmit up to its local write: the form is rejected, or the item is
\* built and written to the store
FormSubmit ==
  /\ calc.phase = "form" /\ calc.form.path = "submit"
  /\ calc' = IF ValidateEventTimes(calc.form)
               THEN [calc EXCEPT !.phase = "written",
                                 !.item = SubmitItem(calc.form, calc.zone)]
               ELSE [calc EXCEPT !.phase = "rejected"]
  /\ UNCHANGED appVars

\* handleCreateEventFromDate up to its local write
FormCreateFromDate ==
  /\ calc.phase = "form" /\ calc.form.path = "fromDate"
  /\ calc' = [calc EXCEPT !.phase = "written",
                          !.item = FromDateItem(calc.form, calc.zone)]
  /\ UNCHANGED appVars

\* createEvent or updateEvent builds the body of its request
FormRequest ==
  /\ calc.phase = "written"
  /\ \E op \in {"POST", "PATCH"} :
       calc' = [calc EXCEPT !.phase = "sent",
                            !.body = [op |-> op,
                                      json |-> RequestBody(op, calc.item, calc.zone)]]
  /\ UNCHANGED appVars

NextForm == FormSubmit \/ FormCreateFromDate \/ FormRequest

SpecForm == InitForm /\ [][NextForm]_vars

----------------------------------------------------------------------------
(* syncEvents: the batch reconcile of the other service classes.  The gapi  *)
(* GoogleCalendarService skips notes and updates linked items; the other    *)
(* four classes only create for items without googleEventId.                *)

\* the length of the list of local items handed to syncEvents
MaxLocal == 2
\* the number of events the remote calendar returns
MaxFetched == 2

BatchServices == {"gapi", "firebaseGoogle", "simple", "working", "firebase"}

LocalItemIds == 1..MaxLocal
\* identifiers of remote events: 101.. are events getEvents can return, 151 is
\* an event outside the window, 201.. are returned by the creates of the run
FetchedIds == {100 + k : k \in 1..MaxFetched}
LinkedIds == FetchedIds \cup {151}
CreatedId(n) == 200 + n

\* the local items: notes, unlinked events, linked events
LocalItems ==
  {it \in [id : LocalItemIds, isNote : BOOLEAN, gid : {NoId} \cup LinkedIds,
           synced : {FALSE}] : it.isNote => it.gid = NoId}

\* the lists of elements of S up to length n
RECURSIVE ListsOf(_, _)
ListsOf(S, n) ==
  IF n = 0 THEN {<<>>}
  ELSE LET shorter == ListsOf(S, n - 1)
       IN shorter \cup
          {Append(q, x) : q \in {r \in shorter : Len(r) = n - 1}, x \in S}

\* the lists of local items syncEvents is given: no local id twice and no
\* googleEventId twice
LocalLists ==
  {q \in ListsOf(LocalItems, MaxLocal) :
     \A k, l \in 1..Len(q) :
       k # l => /\ q[k].id # q[l].id
                /\ (q[k].gid # NoId => q[k].gid # q[l].gid)}

\* the lists getEvents returns: each remote event once
FetchedLists ==
  {q \in ListsOf(FetchedIds, MaxFetched) :
     \A k, l \in 1..Len(q) : k # l => q[k] # q[l]}

\* convertFromGoogleEvent giving the item no googleEventId
ConvertFromGoogleEventUnlinked(rid) ==
  [id |-> rid, isNote |-> FALSE, gid |-> NoId, synced |-> TRUE]

\* convertFromGoogleEvent: the local-shaped item of a remote event
ConvertFromGoogleEvent(rid) ==
  [id |-> rid, isNote |-> FALSE, gid |-> rid, synced |-> TRUE]

\* the second loop without the existsLocally test
RECURSIVE MergeRemoteAppendAll(_, _)
MergeRemoteAppendAll(syncedEvents, googleEvents) ==
  IF googleEvents = <<>> THEN syncedEvents
  ELSE MergeRemoteAppendAll(Append(syncedEvents, Head(googleEvents)),
                            Tail(googleEvents))

\* the second loop of syncEvents: a fetched event is appended unless an entry
\* of syncedEvents has its googleEventId
RECURSIVE MergeRemote(_, _)
MergeRemote(syncedEvents, googleEvents) ==
  IF googleEvents = <<>> THEN syncedEvents
  ELSE LET g == Head(googleEvents)
           existsLocally == \E k \in 1..Len(syncedEvents) : syncedEvents[k].gid = g.gid
       IN MergeRemote(IF existsLocally THEN syncedEvents ELSE Append(syncedEvents, g),
                      Tail(googleEvents))

\* the catch block of the first loop losing the item
PushFailedDropsItem(syncedEvents, item) == syncedEvents

\* the catch block of the first loop: syncedEvents.push(localEvent)
PushFailed(syncedEvents, item) == Append(syncedEvents, item)

\* the first loop creating for every item that is not a skipped note, linked
\* or not
BatchOpIgnoresLink(svc, item) ==
  IF svc = "gapi" /\ item.isNote THEN "none" ELSE "POST"

\* the request the first loop issues for a local item ("none": no request)
BatchOp(svc, item) ==
  IF svc = "gapi"
    THEN IF item.isNote THEN "none"
         ELSE IF item.gid # NoId THEN "PUT" ELSE "POST"
    ELSE IF item.gid = NoId THEN "POST" ELSE "none"

\* the entry pushed for a local item whose request succeeded; rid is the
\* identifier a create returned
PushedEntry(svc, item, op, rid) ==
  CASE op = "POST" ->
         [item EXCEPT !.gid = rid, !.synced = IF svc = "gapi" THEN @ ELSE TRUE]
    [] OTHER -> item

\* the first loop writing the link into the item it was given
LocalEventAfterPushInPlace(item, pushed) == pushed

\* the item of the caller's list after the first loop handled it: the entry
\* pushed is a copy ({...localEvent, resource: {...}}), the item is not touched
LocalEventAfterPush(item, pushed) == item

BatchCreates(reqs) == {k \in 1..Len(reqs) : reqs[k].op = "POST" /\ reqs[k].ok}

InitBatch ==
  /\ variant = "ensure"
  /\ currentUser = TRUE
  /\ lsToken = FALSE
  /\ refreshToken = FALSE
  /\ ssToken = FALSE
  /\ docs = [i \in DocIds |-> AbsentDoc]
  /\ events = {}
  /\ eventsSnap = {}
  /\ notesSnap = {}
  /\ selected = Closed
  /\ h = [p \in Procs |-> IdleH]
  /\ syncQueue = <<>>
  /\ remote = {}
  /\ sent = {}
  /\ lost = {}
  /\ last = NoCall
  /\ ops = 0
  /\ \E svc \in BatchServices, input \in LocalLists, fetched \in FetchedLists :
       calc = [phase |-> "getEvents", svc |-> svc, input |-> input,
               fetched |-> fetched, i |-> 1, syncedEvents |-> <<>>, reqs |-> <<>>,
               run |-> 1, first |-> <<>>]

\* syncEvents up to the answer of getEvents: a failure leaves syncEvents by
\* a throw
BatchGetEvents ==
  /\ calc.phase = "getEvents"
  /\ \E ok \in BOOLEAN :
       calc' = [calc EXCEPT !.phase = IF ok THEN "localLoop" ELSE "threw"]
  /\ UNCHANGED appVars

\* one round of the first loop
BatchLocalItem ==
  /\ calc.phase = "localLoop"
  /\ calc.i <= Len(calc.input)
  /\ LET item == calc.input[calc.i]
         op == BatchOp(calc.svc, item)
     IN \E ok \in BOOLEAN :
          /\ (op = "none") => ok
          /\ LET rid == CreatedId(Cardinality(BatchCreates(calc.reqs)) + 1)
                 req == [op |-> op, id |-> item.id, gid |-> item.gid, ok |-> ok,
                         run |-> calc.run]
                 pushed == IF ok THEN PushedEntry(calc.svc, item, op, rid) ELSE item
             IN calc' = [calc EXCEPT
                  !.i = @ + 1,
                  !.input[calc.i] = LocalEventAfterPush(item, pushed),
                  !.reqs = IF op = "none" THEN @ ELSE Append(@, req),
                  !.syncedEvents = IF ok THEN Append(@, PushedEntry(calc.svc, item, op, rid))
                                         ELSE PushFailed(@, item)]
  /\ UNCHANGED appVars

\* the second loop and the return
BatchMerge ==
  /\ calc.phase = "localLoop"
  /\ calc.i > Len(calc.input)
  /\ calc' = [calc EXCEPT
       !.phase = "returned",
       !.syncedEvents =
          MergeRemote(@, [k \in 1..Len(calc.fetched) |->
                            ConvertFromGoogleEvent(calc.fetched[k])])]
  /\ UNCHANGED appVars

\* the identifiers the creates of the run returned
BatchCreatedIds(reqs) == {CreatedId(n) : n \in 1..Cardinality(BatchCreates(reqs))}

\* what getEvents can return to a second run when nobody else has written to
\* the calendar: the events of the first answer and those of the created
\* events that lie in the window, in any order
RefetchedLists(fetched, createdIds) ==
  LET old == {fetched[k] : k \in 1..Len(fetched)}
  IN {q \in ListsOf(old \cup createdIds, Len(fetched) + Cardinality(createdIds)) :
        /\ \A k, l \in 1..Len(q) : k # l => q[k] # q[l]
        /\ old \subseteq {q[k] : k \in 1..Len(q)}}

\* the caller runs syncEvents again on the list the first run returned, all
\* of whose creates succeeded
BatchRerun ==
  /\ calc.phase = "returned" /\ calc.run = 1
  /\ \A k \in 1..Len(calc.reqs) : calc.reqs[k].op = "POST" => calc.reqs[k].ok
  /\ \E again \in RefetchedLists(calc.fetched, BatchCreatedIds(calc.reqs)) :
       calc' = [calc EXCEPT !.phase = "getEvents", !.run = 2,
                            !.first = calc.syncedEvents,
                            !.input = calc.syncedEvents,
                            !.fetched = again,
                            !.i = 1,
                            !.syncedEvents = <<>>]
  /\ UNCHANGED appVars

NextBatch == BatchGetEvents \/ BatchLocalItem \/ BatchMerge \/ BatchRerun

SpecBatch == InitBatch /\ [][NextBatch]_vars

----------------------------------------------------------------------------
(* The date conversions of the other service classes: the gapi              *)
(* GoogleCalendarService, FirebaseGoogleCalendarService,                    *)
(* SimpleGoogleCalendarService, WorkingGoogleCalendarService,               *)
(* ProperGoogleCalendarService and FirebaseCalendarService.  Their          *)
(* convertToGoogleEvent and convertFromGoogleEvent are the same in every    *)
(* class but for the description field; ProperGoogleCalendarService has no  *)
(* convertFromGoogleEvent.                                                  *)

ConvertServices == BatchServices \cup {"proper"}

\* convertToGoogleEvent of these classes: for an all-day event both dates
\* are event.start and event.end through toISOString().split('T')[0]
OtherConvertToGoogleEvent(ev, z) ==
  [summary |-> "title",
   description |-> ev.content,
   start |-> IF ev.allDay THEN [date |-> IsoDate(ev.start)]
             ELSE [dateTime |-> ev.start, timeZone |-> z],
   end |-> IF ev.allDay THEN [date |-> IsoDate(ev.end)]
           ELSE [dateTime |-> ev.end, timeZone |-> z]]

\* convertFromGoogleEvent of these classes: a date-only boundary is read as
\* local time, start.date at 00:00:00 and end.date at 23:59:59
OtherConvertFromGoogleEvent(g, z) ==
  [start |-> IF "dateTime" \in DOMAIN g.start THEN g.start.dateTime
             ELSE LocalToUtc(z, g.start.date * 24),
   end |-> IF "dateTime" \in DOMAIN g.end THEN g.end.dateTime
           ELSE LocalToUtc(z, g.end.date * 24 + 23),
   allDay |-> "dateTime" \notin DOMAIN g.start,
   isNote |-> FALSE,
   content |-> g.description]

\* the forms whose items are converted
ConvertForms ==
  {f \in EditorForms : f.priority = "medium" /\ f.content = "" /\ ValidateEventTimes(f)}

\* the events of the remote calendar: all-day events with an exclusive end
\* date, and timed events
AllDayGoogleEvents ==
  {g \in [summary : {"title"}, description : {""},
          start : [date : Days], end : [date : 1..(MaxDay + 1)]] :
     g.end.date > g.start.date}

TimedGoogleEvents ==
  {g \in [summary : {"title"}, description : {""},
          start : [dateTime : {9, 33}], end : [dateTime : {10, 34}]] :
     g.end.dateTime > g.start.dateTime}

InitConvert ==
  /\ variant = "ensure"
  /\ currentUser = TRUE
  /\ lsToken = FALSE
  /\ refreshToken = FALSE
  /\ ssToken = FALSE
  /\ docs = [i \in DocIds |-> AbsentDoc]
  /\ events = {}
  /\ eventsSnap = {}
  /\ notesSnap = {}
  /\ selected = Closed
  /\ h = [p \in Procs |-> IdleH]
  /\ syncQueue = <<>>
  /\ remote = {}
  /\ sent = {}
  /\ lost = {}
  /\ last = NoCall
  /\ ops = 0
  /\ \E z \in Zones :
       \/ \E svc \in ConvertServices, f \in ConvertForms :
            calc = [phase |-> "item", svc |-> svc, zone |-> z,
                    item |-> SubmitItem(f, z), gev |-> NoBody]
       \/ \E svc \in BatchServices, g \in AllDayGoogleEvents \cup TimedGoogleEvents :
            calc = [phase |-> "remote", svc |-> svc, zone |-> z,
                    item |-> NoItem, gev |-> g]

\* createEvent or updateEvent converts the item it sends
ConvertSend ==
  /\ calc.phase = "item"
  /\ calc' = [calc EXCEPT !.phase = "sent",
                          !.gev = OtherConvertToGoogleEvent(calc.item, calc.zone)]
  /\ UNCHANGED appVars

\* getEvents converts an event it received
ConvertFetch ==
  /\ calc.phase = "remote"
  /\ calc' = [calc EXCEPT !.phase = "fetched",
                          !.item = OtherConvertFromGoogleEvent(calc.gev, calc.zone)]
  /\ UNCHANGED appVars

NextConvert == ConvertSend \/ ConvertFetch

SpecConvert == InitConvert /\ [][NextConvert]_vars

----------------------------------------------------------------------------
(* The access token over a sequence of service calls.  A call of the        *)
(* token-managing service is ensureValidToken and then, when that returned  *)
(* true, makeRequest; a call of the session-token service is makeRequest.   *)
(* The record calc notes which stored token the provider has rejected with  *)
(* HTTP 401, and whether such a token was attached again.                   *)

\* the number of service calls in a row
MaxCalls == 3

\* the answers to the validity probe: 200, 401, another status, no answer
ProbeResults == {"ok", "unauthorized", "error", "threw"}

\* ensureValidToken, given the answer to its probe (if it sends one)
EnsureAfterProbe(ls, rt, user, res) ==
  IF ~ls /\ ~rt
    THEN RequestNewTokens(ls, rt, user, 0, 0)
    ELSE LET Fallback(p) == IF rt THEN RefreshAccessToken(ls, rt, user, p)
                                  ELSE RequestNewTokens(ls, rt, user, p, 0)
         IN IF ls
              THEN CASE res = "ok" -> {TokOutcome(TRUE, ls, rt, 1, 0, 0)}
                     [] res = "threw" -> {TokOutcome(FALSE, ls, rt, 1, 0, 0)}
                     [] OTHER -> Fallback(1)
              ELSE Fallback(0)

\* refreshAccessToken or requestNewTokens has stored a new access token
NewTokenStored(o) == o.ret /\ o.refresh + o.signin > 0

NoOutcome == [ret |-> "none"]

InitToken ==
  /\ variant \in Variants
  /\ currentUser \in BOOLEAN
  /\ lsToken \in (IF variant = "ensure" THEN BOOLEAN ELSE {FALSE})
  /\ refreshToken \in (IF variant = "ensure" THEN BOOLEAN ELSE {FALSE})
  /\ ssToken \in BOOLEAN
  /\ docs = [i \in DocIds |-> AbsentDoc]
  /\ events = {}
  /\ eventsSnap = {}
  /\ notesSnap = {}
  /\ selected = Closed
  /\ h = [p \in Procs |-> IdleH]
  /\ syncQueue = <<>>
  /\ remote = {}
  /\ sent = {}
  /\ lost = {}
  /\ last = NoCall
  /\ ops = 0
  /\ calc = [phase |-> "start", n |-> 0, out |-> NoOutcome, lsBad |-> FALSE,
             ssBad |-> FALSE, reusedBad |-> FALSE]

\* ensureValidToken at the start of a call of the token-managing service
TokenEnsure ==
  /\ variant = "ensure"
  /\ calc.phase = "start"
  /\ calc.n < MaxCalls
  /\ \E res \in ProbeResults :
       \E o \in EnsureAfterProbe(lsToken, refreshToken, currentUser, res) :
         /\ lsToken' = o.ls
         /\ refreshToken' = o.rt
         /\ calc' = [calc EXCEPT
              !.phase = IF o.ret THEN "request" ELSE "start",
              !.n = @ + 1,
              !.out = o,
              !.reusedBad = @ \/ (o.probe = 1 /\ calc.lsBad),
              !.lsBad = /\ o.ls
                        /\ ~NewTokenStored(o)
                        /\ (@ \/ (o.probe = 1 /\ res = "unauthorized"))]
  /\ UNCHANGED <<variant, currentUser, ssToken, docs, events, eventsSnap, notesSnap,
                 selected, h, syncQueue, remote, sent, lost, last, ops>>

\* makeRequest: the request of the call
TokenRequest ==
  /\ IF variant = "ensure" THEN calc.phase = "request"
     ELSE calc.phase = "start" /\ calc.n < MaxCalls
  /\ \E o \in MakeRequest(variant, lsToken, ssToken, currentUser) :
       LET fromLs == variant = "ensure" /\ lsToken
           attachedBad == o.sent = 1 /\ (IF fromLs THEN calc.lsBad ELSE calc.ssBad)
           rejected == o.res = "unauthorized"
       IN /\ lsToken' = o.ls
          /\ ssToken' = o.ss
          /\ calc' = [calc EXCEPT
               !.phase = "start",
               !.n = IF variant = "ensure" THEN @ ELSE @ + 1,
               !.reusedBad = @ \/ attachedBad,
               !.lsBad = o.ls /\ (@ \/ (rejected /\ fromLs)),
               !.ssBad = o.ss /\ (@ \/ (rejected /\ ~fromLs))]
  /\ UNCHANGED <<variant, currentUser, refreshToken, docs, events, eventsSnap, notesSnap,
                 selected, h, syncQueue, remote, sent, lost, last, ops>>

NextToken == TokenEnsure \/ TokenRequest

SpecToken == InitToken /\ [][NextToken]_vars

----------------------------------------------------------------------------
(* The user interface as Header renders it.  Dashboard passes                *)
(* handleSyncCalendar to Header as onSyncCalendar, and Header calls it only  *)
(* from handleGoogleCalendarSync, the onClick of a button it renders when    *)
(* hasCalendarAccess is false.  The record calc holds Header's state.        *)

\* what checkCalendarPermission gives to setHasCalendarAccess, were it false
CheckCalendarPermissionDenied == FALSE

\* what checkCalendarPermission gives to setHasCalendarAccess
CheckCalendarPermission == TRUE

\* the controls of Header the user can click: the profile button, Sign out
\* in the open profile menu, and the sync button, rendered when
\* hasCalendarAccess is false and disabled while isSyncing
RenderedControls ==
  {"profile"}
    \cup (IF calc.isProfileOpen THEN {"logout"} ELSE {})
    \cup (IF ~calc.hasCalendarAccess /\ ~calc.isSyncing THEN {"sync"} ELSE {})

\* Header.handleGoogleCalendarSync up to the first await of onSyncCalendar;
\* without googleAccessToken in localStorage it throws at once and isSyncing
\* is false again
HandleGoogleCalendarSync ==
  IF lsToken
    THEN /\ SyncCalendarStart
         /\ calc' = [calc EXCEPT !.isSyncing = TRUE]
    ELSE UNCHANGED vars

\* a click on a control of Header
HeaderClick ==
  /\ Mounted
  /\ \E c \in RenderedControls :
       CASE c = "profile" ->
              /\ calc' = [calc EXCEPT !.isProfileOpen = ~@]
              /\ UNCHANGED appVars
         [] c = "logout" -> HandleLogout
         [] OTHER -> HandleGoogleCalendarSync

\* the asynchronous steps of Header that are due: the mount effect, and the
\* end of handleGoogleCalendarSync once onSyncCalendar has returned
HeaderPending ==
  (IF ~calc.checked THEN {"checkCalendarPermission"} ELSE {})
    \cup (IF calc.isSyncing /\ h["sync"].pc = "idle" THEN {"syncDone"} ELSE {})

HeaderContinue ==
  /\ \E k \in HeaderPending :
       calc' = IF k = "checkCalendarPermission"
                 THEN [calc EXCEPT !.hasCalendarAccess = CheckCalendarPermission,
                                   !.checked = TRUE]
                 ELSE [calc EXCEPT !.hasCalendarAccess = TRUE, !.isSyncing = FALSE]
  /\ UNCHANGED appVars

InitHeader ==
  /\ variant \in Variants
  /\ currentUser = TRUE
  /\ lsToken \in (IF variant = "ensure" THEN BOOLEAN ELSE {FALSE})
  /\ refreshToken \in (IF variant = "ensure" THEN BOOLEAN ELSE {FALSE})
  /\ ssToken \in BOOLEAN
  /\ docs = [i \in DocIds |-> AbsentDoc]
  /\ events = {}
  /\ eventsSnap = {}
  /\ notesSnap = {}
  /\ selected = Closed
  /\ h = [p \in Procs |-> IdleH]
  /\ syncQueue = <<>>
  /\ remote = {}
  /\ sent = {}
  /\ lost = {}
  /\ last = NoCall
  /\ ops = 0
  /\ calc = [phase |-> "header", hasCalendarAccess |-> TRUE, isSyncing |-> FALSE,
             isProfileOpen |-> FALSE, checked |-> FALSE]

NextHeader ==
  \/ HandleEventSelect
  \/ HandleSlotSelect
  \/ OnSnapshotEvents
  \/ OnSnapshotNotes
  \/ HandleSubmit
  \/ HandleCreateEventFromDate
  \/ \E e \in events : HandleEventDelete(e)
  \/ HeaderClick
  \/ HeaderContinue
  \/ \E p \in Procs : Ensure(p)
  \/ \E p \in Procs : Request(p)
  \/ \E p \in Procs : Store(p)

SpecHeader == InitHeader /\ [][NextHeader]_vars

----------------------------------------------------------------------------
(* The calendar written from outside the application                        *)
(*                                                                          *)
(* The handlers above are all the application does with the calendar: they  *)
(* send POST, PATCH and DELETE requests and no GET.  The owner of the        *)
(* calendar may also create an event in it directly.                        *)

\* the identifier of an event created directly in the calendar: larger than
\* any identifier a create of the application returns
ExternalId == MaxDocs * MaxOps + MaxOps + 1

\* an event is created in the calendar by its owner, outside the application
ExternalCreate ==
  /\ ExternalId \notin remote
  /\ remote' = remote \cup {ExternalId}
  /\ UNCHANGED <<calc, variant, currentUser, lsToken, ssToken, refreshToken, docs, events,
                 eventsSnap, notesSnap, selected, h, syncQueue, sent, lost, last, ops>>

NextTwoWay ==
  \/ Next
  \/ ExternalCreate

\* the snapshot listeners are called after every change of their collection
\* and every pending promise of a handler is settled; what the user does and
\* what happens in the calendar is not forced
SpecTwoWay ==
  /\ Init
  /\ [][NextTwoWay]_vars
  /\ WF_vars(OnSnapshotEvents)
  /\ WF_vars(OnSnapshotNotes)
  /\ \A p \in Procs : WF_vars(Ensure(p)) /\ WF_vars(Request(p)) /\ WF_vars(Store(p))

----------------------------------------------------------------------------
(* Properties *)

Requests(op, id) == {r \in sent : r.op = op /\ r.id = id}

\* the local write of a handler invocation is in the store
LocalWriteApplied(kind, id, ver) ==
  CASE kind \in {"create", "createFromDate"} -> docs[id].st # "absent"
    [] kind = "edit" -> docs[id].st # "absent" /\ docs[id].ver >= ver
    [] kind = "delete" -> docs[id].st = "deleted"
    [] OTHER -> TRUE

\* C1: no local item ever has more than one remote event created for it
\* (at most one create per local item, never two creates).
C1_AtMostOneCreate ==
  \A id \in DocIds : Cardinality(CreatedFor(id)) <= 1

\* C2: once the handler that issued a successful create has finished with the
\* returned identifier, the identifier is the googleEventId of the item's
\* document (unless the store rejected the write or the document is gone).
C2_CreatedIdStored ==
  \A c \in Created :
    ( /\ Live(c.id)
      /\ c.rid \notin lost
      /\ ~(\E p \in Procs : h[p].pc = "store" /\ h[p].rid = c.rid) )
    => docs[c.id].gid = c.rid

\* C3: every request syncEvent sends is a create when the item passed to it
\* has no googleEventId and an update addressed by its googleEventId when it
\* has one.
C3_SyncEventOp ==
  \A r \in sent : r.svc = "syncEvent" =>
    /\ r.op \in {"POST", "PATCH"}
    /\ (r.op = "POST") <=> (r.arg = NoId)
    /\ (r.op = "PATCH") => (r.arg # NoId /\ r.rid = r.arg)

C3_Witness ==
  \E c, u \in sent :
    /\ c.svc = "syncEvent" /\ c.op = "POST" /\ c.ok
    /\ u.svc = "syncEvent" /\ u.op = "PATCH" /\ u.ok /\ u.id = c.id

\* C4: whenever a handler is calling the calendar, and whenever a calendar
\* call has failed or thrown, the handler's local write (document created,
\* edited or deleted) is in the local store.
C4_LocalWriteSurvives ==
  /\ \A p \in Procs :
       h[p].pc # "idle" => LocalWriteApplied(h[p].kind, h[p].id, h[p].ver)
  /\ last.ret \in {"throw", "null"} =>
       LocalWriteApplied(last.kind, last.id, last.ver)

C4_Witness ==
  /\ last.p = "delete" /\ last.ret = "throw" /\ last.req
  /\ docs[last.id].st = "deleted" /\ docs[last.id].gid # NoId

\* C5: once the delete of an event whose document carries a googleEventId
\* has finished, exactly one remote delete addressed by that googleEventId has
\* been sent: not zero and not more than one.
C5_ExactlyOneDelete ==
  \A id \in DocIds :
    ( /\ docs[id].st = "deleted" /\ ~docs[id].isNote /\ docs[id].gid # NoId
      /\ h["delete"].pc = "idle" )
    => Cardinality({r \in sent : r.op = "DELETE" /\ r.arg = docs[id].gid}) = 1

\* C6: once a remote update of an item has failed, the item's document keeps
\* its googleEventId and no remote event is created for the item any more.
UpdateFailed(id) == \E r \in Requests("PATCH", id) : ~r.ok

C6_NoCreateAfterFailedUpdate ==
  [][\A id \in DocIds :
       UpdateFailed(id) =>
         (docs'[id].gid = docs[id].gid /\ CreatedFor(id)' = CreatedFor(id))]_vars

\* C7: a document is linked only with an identifier a successful create for
\* that very item returned, so an item whose creates all failed has no
\* googleEventId; syncEvent returns null when its request fails; and an
\* update is only ever sent for a linked item, so the next sync of an
\* unlinked item is a create.
C7_FailedCreateLeavesUnlinked ==
  /\ \A id \in DocIds : docs[id].gid # NoId => docs[id].gid \in CreatedFor(id)
  /\ \A p \in Procs : h[p].pc = "store" => h[p].rid \in CreatedFor(h[p].id)
  /\ (last.svc = "syncEvent" /\ last.cause \in {"request", "noToken"}) => last.ret = "null"
  /\ \A r \in sent : r.op = "PATCH" => (r.rid # NoId /\ docs[r.id].gid = r.rid)

C7_Witness ==
  /\ last.p = "sync" /\ last.ret = "id"
  /\ docs[last.id].gid = NoId
  /\ \E f \in Requests("POST", last.id) : ~f.ok

\* C8: no calendar request is ever sent for a note, and no handler ever calls
\* the calendar service for a note.
C8_NotesNeverRemote ==
  /\ \A r \in sent : ~docs[r.id].isNote
  /\ \A p \in Procs : h[p].pc # "idle" => ~docs[h[p].id].isNote
  /\ last.p # "none" => ~docs[last.id].isNote

C8_Witness ==
  \E id \in DocIds :
    docs[id].isNote /\ docs[id].st = "deleted" /\ docs[id].ver > 1

C11_EditTriggersUpdate ==
  [][\A id \in DocIds :
       ( /\ docs'[id].ver > docs[id].ver /\ docs[id].ver > 0
         /\ ~docs[id].isNote /\ docs[id].gid # NoId )
       => ( /\ h'["editor"].svc = "updateEvent"
            /\ h'["editor"].id = id
            /\ h'["editor"].gid = docs[id].gid )]_vars

\* C12: after any interleaving of the two snapshot callbacks, Dashboard's
\* events state is the union of the list of the latest events snapshot and the
\* list of the latest notes snapshot.
C12_EventsIsUnionOfLatest == events = eventsSnap \cup notesSnap

\* a note is displayed and an event that was displayed and then deleted has
\* been dropped by a later events snapshot
C12_Witness ==
  /\ notesSnap # {}
  /\ \E id \in DocIds :
       /\ docs[id].st = "deleted" /\ ~docs[id].isNote
       /\ \A e \in events : e.id # id

\* C13: for every all-day event and every time zone, the end.date of the
\* request body is the local calendar day of the event's end plus one; for an
\* event built by handleSubmit that day is the form's end date, and start.date
\* is the form's start date.
C13_AllDayEndDate ==
  (calc.phase = "sent" /\ calc.item.allDay) =>
    /\ calc.body.json.end.date = LocalDay(calc.zone, calc.item.end) + 1
    /\ calc.form.path = "submit" =>
         /\ calc.body.json.end.date = calc.form.endDay + 1
         /\ calc.body.json.start.date = calc.form.startDay

\* an all-day event west of Greenwich whose end day is the day daylight
\* saving time starts: the UTC day of its end is not its local day
C13_Witness ==
  /\ calc.phase = "sent" /\ calc.item.allDay /\ calc.form.path = "submit"
  /\ calc.zone.off < 0 /\ calc.zone.dst = calc.form.endDay
  /\ IsoDate(calc.item.end) # calc.form.endDay
  /\ calc.body.json.end.date = calc.form.endDay + 1

\* the end the form gives is before the start it gives
FormEndBeforeStart(f) ==
  IF f.allDay THEN f.endDay < f.startDay
  ELSE f.endDay * 24 + f.endHour < f.startDay * 24 + f.startHour

\* C14: no form whose end is before its start gets as far as the local write
\* (and so to the network call that follows it).
C14_EndBeforeStartRejected ==
  (calc.phase \in {"written", "sent"} /\ calc.form.path # "none") =>
    ~FormEndBeforeStart(calc.form)

\* C19: the color table is injective on the three priorities; every request
\* body, of a create and of an update, carries '2' for low, '9' for medium,
\* '11' for high and '9' when the item has no priority.
C19_ColorMapping ==
  /\ \A p, q \in Priorities : ColorId(p) = ColorId(q) => p = q
  /\ calc.phase = "sent" =>
       calc.body.json.colorId =
         CASE calc.item.priority = "low" -> "2"
           [] calc.item.priority = "medium" -> "9"
           [] calc.item.priority = "high" -> "11"
           [] calc.item.priority = "absent" -> "9"

C19_Witness ==
  /\ calc.phase = "sent" /\ calc.body.op = "PATCH"
  /\ calc.item.priority = "absent" /\ calc.body.json.colorId = "9"

\* C20: every request body has exactly summary, description, colorId, start
\* and end; start and end are both {date} for an all-day item and both
\* {dateTime, timeZone} otherwise.
C20_BodyShape ==
  calc.phase = "sent" =>
    /\ DOMAIN calc.body.json = {"summary", "description", "colorId", "start", "end"}
    /\ DOMAIN calc.body.json.start = DOMAIN calc.body.json.end
    /\ DOMAIN calc.body.json.start =
         IF calc.item.allDay THEN {"date"} ELSE {"dateTime", "timeZone"}

C20_Witness ==
  /\ calc.phase = "sent" /\ calc.body.op = "POST" /\ calc.item.allDay
  /\ DOMAIN calc.body.json.end = {"date"}

\* C15: the list syncEvents returns has no two entries with the same
\* googleEventId and no two entries without googleEventId with the same id.
C15_NoDuplicates ==
  calc.phase = "returned" =>
    \A k, l \in 1..Len(calc.syncedEvents) :
      k # l =>
        LET a == calc.syncedEvents[k]
            b == calc.syncedEvents[l]
        IN /\ a.gid # NoId => a.gid # b.gid
           /\ (a.gid = NoId /\ b.gid = NoId) => a.id # b.id

\* a local item is linked to a fetched remote event, another fetched event
\* is appended
C15_Witness ==
  /\ calc.phase = "returned"
  /\ \E k \in 1..Len(calc.input), l \in 1..Len(calc.fetched) :
       calc.input[k].gid = calc.fetched[l]
  /\ Len(calc.syncedEvents) > Len(calc.input)

\* the requests of the run for local item id that failed
BatchFailed(id) ==
  {k \in 1..Len(calc.reqs) : calc.reqs[k].id = id /\ ~calc.reqs[k].ok}

\* C16: every local item is in the returned list exactly once, whether its
\* create or update succeeded or failed; an item whose request failed is there
\* unchanged.
C16_LocalItemsKept ==
  calc.phase = "returned" =>
    \A i \in 1..Len(calc.input) :
      LET at == {k \in 1..Len(calc.syncedEvents) :
                   calc.syncedEvents[k].id = calc.input[i].id}
      IN /\ Cardinality(at) = 1
         /\ BatchFailed(calc.input[i].id) # {} =>
              \A k \in at : calc.syncedEvents[k] = calc.input[i]

\* a create and an update of the same run failed
C16_Witness ==
  /\ calc.phase = "returned"
  /\ \E a, b \in 1..Len(calc.reqs) :
       /\ calc.reqs[a].op = "POST" /\ ~calc.reqs[a].ok
       /\ calc.reqs[b].op = "PUT" /\ ~calc.reqs[b].ok

\* C17: after the entries of the local items, the returned list holds, once
\* each, the fetched remote events whose id is the googleEventId of no local
\* item, as items with isNote false and googleEventId the remote id; no other
\* fetched event is appended.
C17_RemoteAppended ==
  calc.phase = "returned" =>
    LET n == Len(calc.input)
        localGids == {calc.input[k].gid : k \in 1..n}
        missing == {calc.fetched[k] : k \in 1..Len(calc.fetched)} \ localGids
        tail == SubSeq(calc.syncedEvents, n + 1, Len(calc.syncedEvents))
    IN /\ Len(tail) = Cardinality(missing)
       /\ {tail[k] : k \in 1..Len(tail)} =
            {[id |-> g, isNote |-> FALSE, gid |-> g, synced |-> TRUE] : g \in missing}

\* one unlinked local event and one unrelated remote event: two entries
C17_Witness ==
  /\ calc.phase = "returned" /\ calc.svc = "simple"
  /\ Len(calc.input) = 1 /\ calc.input[1].gid = NoId /\ ~calc.input[1].isNote
  /\ Len(calc.fetched) = 1
  /\ Len(calc.syncedEvents) = 2

\* the remote event rid is in the list Dashboard displays or in the local
\* store
Imported(rid) ==
  \/ \E e \in events : e.gid = rid
  \/ \E id \in DocIds : docs[id].gid = rid

\* C18: an event created directly in the external calendar eventually is in
\* the list Dashboard displays or in the local store (two-way sync), unless
\* the user signs out before.
C18_TwoWaySync == (ExternalId \in remote) ~> (Imported(ExternalId) \/ ~Mounted)

\* in no state, whatever the user has done, is the event created in the
\* calendar displayed or stored
C18_NeverImported == ~Imported(ExternalId)

\* a remote delete of the remote event rid was sent and failed, or was due
\* for a deleted document that carried rid as its googleEventId
DeleteAttempted(rid) ==
  \/ \E r \in sent : r.op = "DELETE" /\ r.arg = rid /\ ~r.ok
  \/ \E id \in DocIds : docs[id].st = "deleted" /\ docs[id].gid = rid

\* C21: when no handler is running, every remote event the application
\* created for an item that has been deleted since, and that still exists in
\* the calendar, had a remote delete attempted for it: deleting an event
\* while its create is in flight leaves no unreferenced remote event.
C21_OrphanOnlyByFailedDelete ==
  (\A p \in Procs : h[p].pc = "idle") =>
    \A c \in Created :
      (c.rid \in remote /\ docs[c.id].st = "deleted") => DeleteAttempted(c.rid)

\* C22: in every syncEvents variant no request is issued for a local item
\* that is a note, and the returned list holds the note unchanged.
C22_NotesSkipped ==
  \A i \in 1..Len(calc.input) :
    calc.input[i].isNote =>
      /\ \A k \in 1..Len(calc.reqs) : calc.reqs[k].id # calc.input[i].id
      /\ calc.phase = "returned" =>
           \E k \in 1..Len(calc.syncedEvents) : calc.syncedEvents[k] = calc.input[i]

\* C23: in each of the other service classes the body of an all-day event has
\* an end.date equal to the local calendar day of the event's end plus one.
C23_OtherAllDayEndDate ==
  (calc.phase = "sent" /\ calc.item.allDay) =>
    calc.gev.end.date = LocalDay(calc.zone, calc.item.end) + 1

\* C26: an all-day remote event with exclusive end date E becomes a local
\* item whose last covered local calendar day is E minus one, and whose first
\* covered day is the remote start date.
C26_FetchedAllDayEnd ==
  (calc.phase = "fetched" /\ calc.item.allDay) =>
    /\ LocalDay(calc.zone, calc.item.end) = calc.gev.end.date - 1
    /\ LocalDay(calc.zone, calc.item.start) = calc.gev.start.date

\* C24: when a step of handleSubmit, handleCreateEventFromDate or
\* handleEventDelete starts a calendar call, the handler's local write
\* (addDoc, updateDoc, deleteDoc) is in the store, so a step whose local write
\* failed starts no call; and every request is sent for a document that has
\* been written.
C24_LocalWriteFirst ==
  [][/\ \A p \in {"editor", "delete"} :
          (h[p].pc = "idle" /\ h'[p].pc # "idle") =>
            LocalWriteApplied(h[p].kind, h[p].id, h[p].ver)'
     /\ \A r \in sent' \ sent : docs[r.id].st # "absent"]_vars

\* an update and a delete are in flight together, both after their local
\* writes
C24_Witness ==
  /\ h["editor"].kind = "edit" /\ h["editor"].pc = "request"
  /\ h["delete"].pc = "request"
  /\ docs[h["delete"].id].st = "deleted"
  /\ docs[h["editor"].id].ver = h["editor"].ver

\* C25: no step of syncEvents writes the local store or the displayed list,
\* and none changes an item of the list it was given; a new link is only in
\* the entries of the returned list.
C25_EngineWritesNothing ==
  [][/\ calc'.run = calc.run => calc'.input = calc.input
     /\ docs' = docs
     /\ events' = events]_vars

\* a create succeeded: the returned entry carries the new googleEventId, the
\* item given still has none
C25_Witness ==
  /\ calc.phase = "returned"
  /\ \E i \in 1..Len(calc.input) :
       /\ calc.input[i].gid = NoId
       /\ calc.syncedEvents[i].id = calc.input[i].id
       /\ calc.syncedEvents[i].gid = CreatedId(1)

\* syncEvent (with createEvent and updateEvent): no step of a service call
\* writes the local store or the displayed list; the identifier is handed to
\* the caller in the handler's local rid
C25_SyncEventWritesNothing ==
  [][\A p \in Procs :
       (h[p].pc \in {"ensure", "ensure2", "request"} /\ h'[p] # h[p]) =>
         (docs' = docs /\ events' = events)]_vars

\* C27: a token the provider has rejected with HTTP 401 is never attached to
\* a later request, neither a calendar request nor a validity probe.
C27_RejectedTokenNotReused == ~calc.reusedBad

\* the 401 answers to makeRequest are handled as C27 says: the session-token
\* service never attaches a rejected token, and in both services a rejected
\* token is only ever left in localStorage by ensureValidToken
C27_RequestPathRemoves ==
  /\ ~calc.ssBad
  /\ variant = "session" => ~calc.reusedBad
  /\ calc.lsBad => calc.out.probe = 1

\* C30: every call of ensureValidToken returns, whatever the stored tokens and
\* the answers of the network, and what it returns is a boolean, after at most
\* one validity probe, one refresh request and one interactive sign-in.
C30_EnsureReturnsBoolean ==
  /\ [](\A res \in ProbeResults :
          EnsureAfterProbe(lsToken, refreshToken, currentUser, res) # {})
  /\ [][(variant = "ensure" /\ calc'.n > calc.n) =>
          /\ calc'.out \in EnsureValidToken(lsToken, refreshToken, currentUser)
          /\ calc'.out.ret \in BOOLEAN
          /\ calc'.out.probe <= 1
          /\ calc'.out.refresh <= 1
          /\ calc'.out.signin <= 1
          /\ calc'.phase = IF calc'.out.ret THEN "request" ELSE "start"]_vars

\* the longest path: the probe is answered not ok, the refresh fails, the
\* sign-in fails, and ensureValidToken returns false
C30_Witness ==
  /\ variant = "ensure" /\ calc.n > 0
  /\ calc.out.ret = FALSE
  /\ calc.out.probe = 1 /\ calc.out.refresh = 1 /\ calc.out.signin = 1
  /\ ~lsToken /\ ~refreshToken

\* C28: a second run of syncEvents on the list returned by a run all of whose
\* creates succeeded issues no create, and the list it returns has the same
\* entries, each once.
C28_RerunCreatesNothing ==
  calc.run = 2 =>
    /\ \A k \in 1..Len(calc.reqs) : calc.reqs[k].run = 2 => calc.reqs[k].op # "POST"
    /\ calc.phase = "returned" =>
         /\ Len(calc.syncedEvents) = Len(calc.first)
         /\ {calc.syncedEvents[k] : k \in 1..Len(calc.syncedEvents)} =
              {calc.first[k] : k \in 1..Len(calc.first)}

\* the first run created an event and appended a remote one; the second run
\* fetched both and returned
C28_Witness ==
  /\ calc.run = 2 /\ calc.phase = "returned"
  /\ \E k \in 1..Len(calc.reqs) : calc.reqs[k].run = 1 /\ calc.reqs[k].op = "POST"
  /\ \E k \in 1..Len(calc.fetched) : calc.fetched[k] = CreatedId(1)
  /\ \E k \in 1..Len(calc.first) : calc.first[k].id \in FetchedIds

====
